---------------------------- MODULE Spec2Model ----------------------------
(***************************************************************************)
(* Pid-file handling of lib/monkey/mk_core/mk_utils.c:                     *)
(* mk_utils_register_pid() and mk_utils_remove_pid(), run by several       *)
(* independently launched processes on one configured path.                *)
(*                                                                         *)
(* The filesystem is modelled at the level the system calls see it: the    *)
(* path names an inode or nothing, an inode keeps its bytes while a        *)
(* descriptor refers to it, and a POSIX record lock (fcntl F_SETLK) is     *)
(* owned by a process on an inode and is dropped when that process closes  *)
(* a descriptor of the inode or exits.  Every system call is one step.     *)
(***************************************************************************)
EXTENDS Integers, Sequences, FiniteSets, TLC

\* Number of processes launched on the same pid-file path.
NumProcs == 2

EXIT_SUCCESS == 0
EXIT_FAILURE == 1

\* #define MK_MAX_PID_LEN 10
MK_MAX_PID_LEN == 10

\* The file-creation mask a process inherits from its launcher (022).
InheritedUmask == 18

Procs == 1..NumProcs

\* The process identifiers getpid() returns, of different decimal lengths.
PidTable == <<48, 7, 305, 1290, 92>>

getpid(p) == PidTable[p]

\* Inode 0 is the file found at the path at startup (left by an earlier run);
\* inode p is the file process p creates in its open(O_CREAT).
StaleIno == 0
Inodes == {StaleIno} \cup Procs

NoFile == -1
NoFd == -1
\* What "initial" holds when nothing was at the path at startup.
Absent == <<-1>>
NoProc == 0
NoRet == -1
Running == -1

\* Bytes left in the file by an earlier run: "7\n" and "99999".
StaleContents == { <<55, 10>>, <<57, 57, 57, 57, 57>> }

VARIABLES
    pc,          \* pc[p]: the statement process p executes next
    path,        \* the inode the pid-file path names, or NoFile
    content,     \* content[i]: the bytes of inode i
    lockOwner,   \* lockOwner[i]: the process holding the write lock on inode i
    fd,          \* fd[p]: the inode p's descriptor refers to, or NoFd
    regRet,      \* regRet[p]: what mk_utils_register_pid returned to p
    rmRet,       \* rmRet[p]: what mk_utils_remove_pid returned to p
    exitStatus,  \* exitStatus[p]: status p passed to exit(), or Running
    errors,      \* errors[p]: number of mk_err lines p printed
    warnings,    \* warnings[p]: number of mk_warn lines p printed
    written,     \* written[i]: a write() of the whole pid string into i completed
    fault,       \* fault[p]: the system call of p the environment made fail
    atStart,     \* atStart[p][q]: where q was when p entered mk_utils_register_pid
    initial,     \* the bytes found at the path at startup, or Absent
    forkRet,     \* forkRet[p]: the local pid of mk_utils_set_daemon (fork's result)
    umaskv,      \* umaskv[p]: p's file-creation mask
    sid,         \* sid[p]: p leads a session of its own (setsid)
    cwd,         \* cwd[p]: p's working directory
    stdoutOpen,  \* stdoutOpen[p]: p's stdout stream is open
    stderrOpen,  \* stderrOpen[p]: p's stderr stream is open
    infos,       \* infos[p]: number of mk_info lines p printed
    dRet,        \* dRet[p]: what mk_utils_set_daemon returned to p
    fpc,         \* formatting alone: the statement executed next
    fpid,        \* formatting alone: the value of getpid()
    fbuf,        \* formatting alone: the bytes stored in char pidstr[MK_MAX_PID_LEN]
    foverrun,    \* formatting alone: bytes sprintf stored past the end of pidstr
    flen         \* formatting alone: write_len

\* The state of mk_utils_set_daemon.
dvars == <<forkRet, umaskv, sid, cwd, stdoutOpen, stderrOpen, infos, dRet>>

\* The state of the formatting of the pid taken alone.
fvars == <<fpc, fpid, fbuf, foverrun, flen>>

\* The state of the pid file that mk_utils_set_daemon never touches.
pvars == <<path, content, regRet, rmRet, warnings, written, atStart, initial>>

vars == <<pc, path, content, lockOwner, fd, regRet, rmRet, exitStatus,
          errors, warnings, written, fault, atStart, initial, dvars, fvars>>

InCall == {"unlink", "open", "lock", "write", "close"}

\* The statements of mk_utils_set_daemon; "unborn" is a process fork has not
\* created yet.
InDaemon == {"unborn", "fork", "forked", "umask", "setsid", "chdir", "info",
             "fclose_stderr", "fclose_stdout"}

\* Where a process is, as far as another process's call is concerned.
Phase(q) ==
    CASE pc[q] \in {"start"} \cup InDaemon -> "start"
      [] pc[q] \in InCall -> "incall"
      [] pc[q] = "registered" -> "registered"
      [] OTHER -> "gone"

----------------------------------------------------------------------------
(* sprintf(pidstr, "%i", n): the decimal digits of n as ASCII bytes.        *)

\* The digits as a conversion loop produces them when it forgets to reverse
\* them: least significant first.
RECURSIVE DigitsUnreversed(_)
DigitsUnreversed(n) == IF n < 10 THEN <<48 + n>>
                       ELSE <<48 + (n % 10)>> \o DigitsUnreversed(n \div 10)

RECURSIVE Digits(_)
Digits(n) == IF n < 10 THEN <<48 + n>>
             ELSE Append(Digits(n \div 10), 48 + (n % 10))

\* The format "%i\n" instead of "%i".
sprintf_i_newline(n) == Digits(n) \o <<10>>

sprintf_i(n) == IF n < 0 THEN <<45>> \o Digits(0 - n) ELSE Digits(n)

strlen(s) == Len(s)

(* write(fd, buf, n) on a descriptor at offset 0 of a file opened without   *)
(* O_TRUNC and without O_APPEND: the first n bytes are replaced, the rest   *)
(* of the file is kept.                                                     *)
WriteAt0(old, buf, n) ==
    SubSeq(buf, 1, n) \o SubSeq(old, n + 1, Len(old))

(* close(fd) and exit() drop every record lock the process holds on the     *)
(* inode of the descriptor.                                                 *)
Unlocked(p, i) ==
    IF i # NoFd /\ lockOwner[i] = p
    THEN [lockOwner EXCEPT ![i] = NoProc]
    ELSE lockOwner

----------------------------------------------------------------------------
\* A process as its launcher starts it: in the launcher's directory, with
\* its mask and its terminal, mk_utils_set_daemon not called.
ForegroundInit ==
    /\ forkRet = [p \in Procs |-> NoRet]
    /\ umaskv = [p \in Procs |-> InheritedUmask]
    /\ sid = [p \in Procs |-> FALSE]
    /\ cwd = [p \in Procs |-> "launchdir"]
    /\ stdoutOpen = [p \in Procs |-> TRUE]
    /\ stderrOpen = [p \in Procs |-> TRUE]
    /\ infos = [p \in Procs |-> 0]
    /\ dRet = [p \in Procs |-> NoRet]

\* The formatting taken alone is not running.
FmtOff ==
    /\ fpc = "off"
    /\ fpid = 0
    /\ fbuf = << >>
    /\ foverrun = 0
    /\ flen = 0

\* The pid file as the processes find it, and nothing acquired yet.
FileInit ==
    /\ initial \in StaleContents \cup {Absent}
    /\ path = IF initial = Absent THEN NoFile ELSE StaleIno
    /\ content = [i \in Inodes |->
                    IF i = StaleIno /\ initial # Absent THEN initial ELSE << >>]
    /\ lockOwner = [i \in Inodes |-> NoProc]
    /\ fd = [p \in Procs |-> NoFd]
    /\ regRet = [p \in Procs |-> NoRet]
    /\ rmRet = [p \in Procs |-> NoRet]
    /\ exitStatus = [p \in Procs |-> Running]
    /\ errors = [p \in Procs |-> 0]
    /\ warnings = [p \in Procs |-> 0]
    /\ written = [i \in Inodes |-> FALSE]
    /\ fault = [p \in Procs |-> "none"]
    /\ atStart = [p \in Procs |-> [q \in Procs |-> "start"]]

Init ==
    /\ ForegroundInit
    /\ FmtOff
    /\ FileInit
    /\ pc = [p \in Procs |-> "start"]

(* An inode whose name and whose last descriptor are gone is freed by the   *)
(* kernel: its bytes no longer exist.                                       *)
Kept(i, pth, fds) == i = pth \/ \E q \in Procs : fds[q] = i

Reclaim(c, w) ==
    /\ content' = [i \in Inodes |-> IF Kept(i, path', fd') THEN c[i] ELSE << >>]
    /\ written' = [i \in Inodes |-> Kept(i, path', fd') /\ w[i]]

(* mk_err(...); exit(EXIT_FAILURE): one error line, then the process ends   *)
(* and the kernel closes its descriptor, dropping its lock.                 *)
Fatal(p) ==
    /\ errors' = [errors EXCEPT ![p] = @ + 1]
    /\ exitStatus' = [exitStatus EXCEPT ![p] = EXIT_FAILURE]
    /\ pc' = [pc EXCEPT ![p] = "exited"]
    /\ lockOwner' = Unlocked(p, fd[p])
    /\ fd' = [fd EXCEPT ![p] = NoFd]

(* if (stat(path, &sb) == 0)                                                *)
Stat(p) ==
    /\ pc[p] = "start"
    /\ atStart' = [atStart EXCEPT ![p] = [q \in Procs |-> Phase(q)]]
    /\ pc' = [pc EXCEPT ![p] = IF path # NoFile THEN "unlink" ELSE "open"]
    /\ UNCHANGED <<path, content, lockOwner, fd, regRet, rmRet, exitStatus,
                   errors, warnings, written, fault, initial>>
    /\ UNCHANGED <<dvars, fvars>>

\* The stale file is found but not removed before the open.
UnlinkOld_Skipped(p) ==
    /\ pc[p] = "unlink"
    /\ pc' = [pc EXCEPT ![p] = "open"]
    /\ UNCHANGED <<path, content, lockOwner, fd, regRet, rmRet, exitStatus,
                   errors, warnings, written, fault, atStart, initial>>
    /\ UNCHANGED <<dvars, fvars>>

(* ret = unlink(path); if (ret == -1) { mk_err(...); exit(EXIT_FAILURE); }  *)
(* unlink fails when nothing is at the path any more (ENOENT), or when the  *)
(* environment refuses it (EACCES, EROFS, ...).                             *)
UnlinkOld(p) ==
    /\ pc[p] = "unlink"
    /\ \E ok \in BOOLEAN :
         IF path # NoFile /\ ok
         THEN /\ path' = NoFile
              /\ pc' = [pc EXCEPT ![p] = "open"]
              /\ UNCHANGED <<lockOwner, fd, exitStatus, errors, fault>>
         ELSE /\ Fatal(p)
              /\ fault' = [fault EXCEPT ![p] =
                             IF path # NoFile THEN "unlink" ELSE @]
              /\ UNCHANGED path
    /\ Reclaim(content, written)
    /\ UNCHANGED <<regRet, rmRet, warnings, atStart, initial>>
    /\ UNCHANGED <<dvars, fvars>>

(* fd = open(path, O_WRONLY | O_CREAT | O_CLOEXEC, 0444): creates the file  *)
(* when the path names nothing, opens the file the path names otherwise     *)
(* (no O_EXCL, no O_TRUNC); < 0 when the environment refuses it.            *)
Open(p) ==
    /\ pc[p] = "open"
    /\ \E ok \in BOOLEAN :
         IF ok
         THEN /\ path' = IF path = NoFile THEN p ELSE path
              /\ fd' = [fd EXCEPT ![p] = path']
              /\ pc' = [pc EXCEPT ![p] = "lock"]
              /\ UNCHANGED <<lockOwner, exitStatus, errors, fault>>
         ELSE /\ Fatal(p)
              /\ fault' = [fault EXCEPT ![p] = "open"]
              /\ UNCHANGED path
    /\ Reclaim(content, written)
    /\ UNCHANGED <<regRet, rmRet, warnings, atStart, initial>>
    /\ UNCHANGED <<dvars, fvars>>

\* The result of fcntl is not tested: the call goes on to write without the
\* lock.
Lock_FailureIgnored(p) ==
    /\ pc[p] = "lock"
    /\ lockOwner' = IF lockOwner[fd[p]] \in {NoProc, p}
                    THEN [lockOwner EXCEPT ![fd[p]] = p]
                    ELSE lockOwner
    /\ pc' = [pc EXCEPT ![p] = "write"]
    /\ UNCHANGED <<path, content, fd, regRet, rmRet, exitStatus, errors,
                   warnings, written, fault, atStart, initial>>
    /\ UNCHANGED <<dvars, fvars>>

\* F_SETLKW instead of F_SETLK: the call waits until no other process holds
\* a lock on the inode.
Lock_Blocking(p) ==
    /\ pc[p] = "lock"
    /\ lockOwner[fd[p]] \in {NoProc, p}
    /\ lockOwner' = [lockOwner EXCEPT ![fd[p]] = p]
    /\ pc' = [pc EXCEPT ![p] = "write"]
    /\ UNCHANGED <<path, content, fd, regRet, rmRet, exitStatus, errors,
                   warnings, written, fault, atStart, initial>>
    /\ UNCHANGED <<dvars, fvars>>

(* lock.l_type = F_WRLCK; whole file; fcntl(fd, F_SETLK, &lock): fails at   *)
(* once when another process holds a lock on the inode (EAGAIN), or when    *)
(* the environment refuses it (ENOLCK).  On failure: close(fd); mk_err;     *)
(* exit(EXIT_FAILURE).                                                      *)
Lock(p) ==
    /\ pc[p] = "lock"
    /\ \E ok \in BOOLEAN :
         IF lockOwner[fd[p]] \in {NoProc, p} /\ ok
         THEN /\ lockOwner' = [lockOwner EXCEPT ![fd[p]] = p]
              /\ pc' = [pc EXCEPT ![p] = "write"]
              /\ UNCHANGED <<fd, exitStatus, errors, fault>>
         ELSE /\ Fatal(p)
              /\ fault' = [fault EXCEPT ![p] =
                             IF lockOwner[fd[p]] \in {NoProc, p} THEN "lock" ELSE @]
    /\ UNCHANGED path
    /\ Reclaim(content, written)
    /\ UNCHANGED <<regRet, rmRet, warnings, atStart, initial>>
    /\ UNCHANGED <<dvars, fvars>>

(* sprintf(pidstr, "%i", getpid()); write_len = strlen(pidstr);             *)
(* if (write(fd, pidstr, write_len) != write_len) { close; mk_err; exit }   *)
(* write() returns n: -1, or the number of bytes it stored.                 *)
Write(p) ==
    /\ pc[p] = "write"
    /\ LET pidstr == sprintf_i(getpid(p))
           write_len == strlen(pidstr)
       IN \E n \in -1..write_len :
            /\ IF n = write_len
               THEN /\ pc' = [pc EXCEPT ![p] = "close"]
                    /\ UNCHANGED <<lockOwner, fd, exitStatus, errors, fault>>
               ELSE /\ Fatal(p)
                    /\ fault' = [fault EXCEPT ![p] = "write"]
            /\ UNCHANGED path
            /\ Reclaim([content EXCEPT ![fd[p]] =
                          WriteAt0(@, pidstr, IF n < 0 THEN 0 ELSE n)],
                       [written EXCEPT ![fd[p]] = @ \/ n = write_len])
    /\ UNCHANGED <<regRet, rmRet, warnings, atStart, initial>>
    /\ UNCHANGED <<dvars, fvars>>

(* close(fd); return 0;                                                     *)
Close(p) ==
    /\ pc[p] = "close"
    /\ lockOwner' = Unlocked(p, fd[p])
    /\ fd' = [fd EXCEPT ![p] = NoFd]
    /\ regRet' = [regRet EXCEPT ![p] = 0]
    /\ pc' = [pc EXCEPT ![p] = "registered"]
    /\ UNCHANGED path
    /\ Reclaim(content, written)
    /\ UNCHANGED <<rmRet, exitStatus, errors, warnings, fault, atStart, initial>>
    /\ UNCHANGED <<dvars, fvars>>

\* mk_utils_remove_pid that only reports: it returns 0 and leaves the file.
RemovePid_NoUnlink(p) ==
    /\ pc[p] = "registered"
    /\ rmRet' = [rmRet EXCEPT ![p] = 0]
    /\ pc' = [pc EXCEPT ![p] = "removed"]
    /\ UNCHANGED <<path, content, lockOwner, fd, regRet, exitStatus, errors,
                   warnings, written, fault, atStart, initial>>
    /\ UNCHANGED <<dvars, fvars>>

\* mk_utils_remove_pid that treats a failed unlink like the failures of
\* mk_utils_register_pid: mk_err and exit(EXIT_FAILURE).
RemovePid_FatalOnFailure(p) ==
    /\ pc[p] = "registered"
    /\ \E ok \in BOOLEAN :
         IF path # NoFile /\ ok
         THEN /\ path' = NoFile
              /\ rmRet' = [rmRet EXCEPT ![p] = 0]
              /\ pc' = [pc EXCEPT ![p] = "removed"]
              /\ UNCHANGED <<lockOwner, fd, exitStatus, errors>>
         ELSE /\ Fatal(p)
              /\ UNCHANGED <<path, rmRet>>
    /\ Reclaim(content, written)
    /\ UNCHANGED <<regRet, warnings, fault, atStart, initial>>
    /\ UNCHANGED <<dvars, fvars>>

(* if (unlink(path)) { mk_warn("cannot delete pidfile\n"); } return 0;      *)
RemovePid(p) ==
    /\ pc[p] = "registered"
    /\ \E ok \in BOOLEAN :
         IF path # NoFile /\ ok
         THEN /\ path' = NoFile
              /\ UNCHANGED warnings
         ELSE /\ warnings' = [warnings EXCEPT ![p] = @ + 1]
              /\ UNCHANGED path
    /\ rmRet' = [rmRet EXCEPT ![p] = 0]
    /\ pc' = [pc EXCEPT ![p] = "removed"]
    /\ UNCHANGED fd
    /\ Reclaim(content, written)
    /\ UNCHANGED <<lockOwner, regRet, exitStatus, errors, fault, atStart,
                   initial>>
    /\ UNCHANGED <<dvars, fvars>>

(* The server ends (after or without mk_utils_remove_pid): the process is   *)
(* gone and holds nothing.                                                  *)
Exit(p) ==
    /\ pc[p] \in {"registered", "removed"}
    /\ pc' = [pc EXCEPT ![p] = "exited"]
    /\ exitStatus' = [exitStatus EXCEPT ![p] = EXIT_SUCCESS]
    /\ lockOwner' = Unlocked(p, fd[p])
    /\ fd' = [fd EXCEPT ![p] = NoFd]
    /\ UNCHANGED path
    /\ Reclaim(content, written)
    /\ UNCHANGED <<regRet, rmRet, errors, warnings, fault, atStart, initial>>
    /\ UNCHANGED <<dvars, fvars>>

----------------------------------------------------------------------------
(* mk_utils_set_daemon.                                                     *)

(* if ((pid = fork()) < 0) { mk_err(...); exit(EXIT_FAILURE); }             *)
(* A fork that succeeds creates the next process, a copy of its parent; the *)
(* parent gets the child's pid and the child gets 0.                        *)
Fork(p) ==
    /\ pc[p] = "fork"
    /\ \E ok \in BOOLEAN :
          IF ok
          THEN /\ p + 1 \in Procs
               /\ pc[p + 1] = "unborn"
               /\ forkRet' = [forkRet EXCEPT ![p] = getpid(p + 1), ![p + 1] = 0]
               /\ pc' = [pc EXCEPT ![p] = "forked", ![p + 1] = "forked"]
               /\ UNCHANGED <<errors, exitStatus, fault, lockOwner, fd>>
          ELSE /\ forkRet' = [forkRet EXCEPT ![p] = -1]
               /\ fault' = [fault EXCEPT ![p] = "fork"]
               /\ Fatal(p)
    /\ UNCHANGED <<umaskv, sid, cwd, stdoutOpen, stderrOpen, infos, dRet>>
    /\ UNCHANGED <<pvars, fvars>>

\* The parent does not exit: it goes on as the child does.
AfterFork_ParentContinues(p) ==
    /\ pc[p] = "forked"
    /\ pc' = [pc EXCEPT ![p] = "umask"]
    /\ UNCHANGED <<exitStatus, errors, fault, lockOwner, fd>>
    /\ UNCHANGED <<dvars, pvars, fvars>>

(* if (pid > 0) exit(EXIT_SUCCESS);   /* parent */                          *)
AfterFork(p) ==
    /\ pc[p] = "forked"
    /\ IF forkRet[p] > 0
       THEN /\ pc' = [pc EXCEPT ![p] = "exited"]
            /\ exitStatus' = [exitStatus EXCEPT ![p] = EXIT_SUCCESS]
       ELSE /\ pc' = [pc EXCEPT ![p] = "umask"]
            /\ UNCHANGED exitStatus
    /\ UNCHANGED <<errors, fault, lockOwner, fd>>
    /\ UNCHANGED <<dvars, pvars, fvars>>

(* umask(0);                                                                *)
Umask(p) ==
    /\ pc[p] = "umask"
    /\ umaskv' = [umaskv EXCEPT ![p] = 0]
    /\ pc' = [pc EXCEPT ![p] = "setsid"]
    /\ UNCHANGED <<forkRet, sid, cwd, stdoutOpen, stderrOpen, infos, dRet>>
    /\ UNCHANGED <<exitStatus, errors, fault, lockOwner, fd>>
    /\ UNCHANGED <<pvars, fvars>>

(* setsid();  The caller was just forked, so it leads no process group and  *)
(* the call is granted; its result is not read.                             *)
Setsid(p) ==
    /\ pc[p] = "setsid"
    /\ sid' = [sid EXCEPT ![p] = TRUE]
    /\ pc' = [pc EXCEPT ![p] = "chdir"]
    /\ UNCHANGED <<forkRet, umaskv, cwd, stdoutOpen, stderrOpen, infos, dRet>>
    /\ UNCHANGED <<exitStatus, errors, fault, lockOwner, fd>>
    /\ UNCHANGED <<pvars, fvars>>

\* The result of chdir is not read.
Chdir_FailureIgnored(p) ==
    /\ pc[p] = "chdir"
    /\ \E ok \in BOOLEAN :
          /\ cwd' = [cwd EXCEPT ![p] = IF ok THEN "/" ELSE @]
          /\ fault' = [fault EXCEPT ![p] = IF ok THEN @ ELSE "chdir"]
    /\ pc' = [pc EXCEPT ![p] = "info"]
    /\ UNCHANGED <<errors, exitStatus, lockOwner, fd>>
    /\ UNCHANGED <<forkRet, umaskv, sid, stdoutOpen, stderrOpen, infos, dRet>>
    /\ UNCHANGED <<pvars, fvars>>

\* The line "Background mode ON" is printed before the result of chdir is
\* read.
Chdir_InfoBeforeCheck(p) ==
    /\ pc[p] = "chdir"
    /\ infos' = [infos EXCEPT ![p] = @ + 1]
    /\ \E ok \in BOOLEAN :
          IF ok
          THEN /\ cwd' = [cwd EXCEPT ![p] = "/"]
               /\ pc' = [pc EXCEPT ![p] = "fclose_stderr"]
               /\ UNCHANGED <<errors, exitStatus, fault, lockOwner, fd>>
          ELSE /\ fault' = [fault EXCEPT ![p] = "chdir"]
               /\ Fatal(p)
               /\ UNCHANGED cwd
    /\ UNCHANGED <<forkRet, umaskv, sid, stdoutOpen, stderrOpen, dRet>>
    /\ UNCHANGED <<pvars, fvars>>

(* if (chdir("/") < 0) { mk_err(...); exit(EXIT_FAILURE); }                 *)
Chdir(p) ==
    /\ pc[p] = "chdir"
    /\ \E ok \in BOOLEAN :
          IF ok
          THEN /\ cwd' = [cwd EXCEPT ![p] = "/"]
               /\ pc' = [pc EXCEPT ![p] = "info"]
               /\ UNCHANGED <<errors, exitStatus, fault, lockOwner, fd>>
          ELSE /\ fault' = [fault EXCEPT ![p] = "chdir"]
               /\ Fatal(p)
               /\ UNCHANGED cwd
    /\ UNCHANGED <<forkRet, umaskv, sid, stdoutOpen, stderrOpen, infos, dRet>>
    /\ UNCHANGED <<pvars, fvars>>

(* mk_info("Background mode ON");                                           *)
MkInfo(p) ==
    /\ pc[p] = "info"
    /\ infos' = [infos EXCEPT ![p] = @ + 1]
    /\ pc' = [pc EXCEPT ![p] = "fclose_stderr"]
    /\ UNCHANGED <<forkRet, umaskv, sid, cwd, stdoutOpen, stderrOpen, dRet>>
    /\ UNCHANGED <<exitStatus, errors, fault, lockOwner, fd>>
    /\ UNCHANGED <<pvars, fvars>>

(* fclose(stderr);  The stream is closed whether or not its last flush      *)
(* succeeds; the result is not read.                                        *)
FcloseStderr(p) ==
    /\ pc[p] = "fclose_stderr"
    /\ stderrOpen' = [stderrOpen EXCEPT ![p] = FALSE]
    /\ \E ok \in BOOLEAN :
          fault' = [fault EXCEPT ![p] = IF ok THEN @ ELSE "fclose"]
    /\ pc' = [pc EXCEPT ![p] = "fclose_stdout"]
    /\ UNCHANGED <<forkRet, umaskv, sid, cwd, stdoutOpen, infos, dRet>>
    /\ UNCHANGED <<exitStatus, errors, lockOwner, fd>>
    /\ UNCHANGED <<pvars, fvars>>

(* fclose(stdout); return 0;                                                *)
FcloseStdout(p) ==
    /\ pc[p] = "fclose_stdout"
    /\ stdoutOpen' = [stdoutOpen EXCEPT ![p] = FALSE]
    /\ \E ok \in BOOLEAN :
          fault' = [fault EXCEPT ![p] = IF ok THEN @ ELSE "fclose"]
    /\ dRet' = [dRet EXCEPT ![p] = 0]
    /\ pc' = [pc EXCEPT ![p] = "start"]
    /\ UNCHANGED <<forkRet, umaskv, sid, cwd, stderrOpen, infos>>
    /\ UNCHANGED <<exitStatus, errors, lockOwner, fd>>
    /\ UNCHANGED <<pvars, fvars>>

----------------------------------------------------------------------------
(* The formatting of the pid in mk_utils_register_pid, taken alone.         *)

\* Values of getpid() at and around every change of length of the decimal
\* form, up to the largest pid_t.
PidSamples ==
    {10 ^ k : k \in 0..9} \cup {10 ^ k - 1 : k \in 1..9}
        \cup {2 ^ k : k \in 0..30} \cup {2147483647}

(* char pidstr[MK_MAX_PID_LEN]; sprintf(pidstr, "%i", getpid());            *)
(* sprintf stores the digits and a terminating 0 and knows no bound: what   *)
(* does not fit in pidstr is stored past its end.                           *)
FmtSprintf ==
    /\ fpc = "sprintf"
    /\ LET stored == sprintf_i(fpid) \o <<0>>
       IN  IF Len(stored) <= MK_MAX_PID_LEN
           THEN fbuf' = stored /\ foverrun' = 0
           ELSE /\ fbuf' = SubSeq(stored, 1, MK_MAX_PID_LEN)
                /\ foverrun' = Len(stored) - MK_MAX_PID_LEN
    /\ fpc' = "strlen"
    /\ UNCHANGED <<fpid, flen>>
    /\ UNCHANGED <<pc, exitStatus, errors, fault, lockOwner, fd, pvars, dvars>>

(* write_len = strlen(pidstr);                                              *)
(* After a store past the end of pidstr the behaviour is undefined: the     *)
(* length read back is any value.                                           *)
FmtStrlen ==
    /\ fpc = "strlen"
    /\ IF foverrun = 0
       THEN flen' = strlen(SubSeq(fbuf, 1, Len(fbuf) - 1))
       ELSE flen' \in 0..(MK_MAX_PID_LEN + foverrun)
    /\ fpc' = "done"
    /\ UNCHANGED <<fpid, fbuf, foverrun>>
    /\ UNCHANGED <<pc, exitStatus, errors, fault, lockOwner, fd, pvars, dvars>>

----------------------------------------------------------------------------
Next ==
    \E p \in Procs :
        \/ Stat(p)
        \/ UnlinkOld(p)
        \/ Open(p)
        \/ Lock(p)
        \/ Write(p)
        \/ Close(p)
        \/ RemovePid(p)
        \/ Exit(p)

Spec == Init /\ [][Next]_vars

(* The server started in background mode: the first process calls           *)
(* mk_utils_set_daemon, and the process that returns from it registers its  *)
(* pid, serves, removes the pid file and ends.                              *)
InitDaemon ==
    /\ ForegroundInit
    /\ FmtOff
    /\ FileInit
    /\ pc = [p \in Procs |-> IF p = 1 THEN "fork" ELSE "unborn"]

NextDaemon ==
    \E p \in Procs :
        \/ Fork(p)
        \/ AfterFork(p)
        \/ Umask(p)
        \/ Setsid(p)
        \/ Chdir(p)
        \/ MkInfo(p)
        \/ FcloseStderr(p)
        \/ FcloseStdout(p)
        \/ Stat(p)
        \/ UnlinkOld(p)
        \/ Open(p)
        \/ Lock(p)
        \/ Write(p)
        \/ Close(p)
        \/ RemovePid(p)
        \/ Exit(p)

SpecDaemon == InitDaemon /\ [][NextDaemon]_vars

(* The formatting of one pid, for the pids of PidSamples.                   *)
InitFmt ==
    /\ ForegroundInit
    /\ FileInit
    /\ initial = Absent
    /\ pc = [p \in Procs |-> "start"]
    /\ fpc = "sprintf"
    /\ fpid \in PidSamples
    /\ fbuf = << >>
    /\ foverrun = 0
    /\ flen = 0

NextFmt == FmtSprintf \/ FmtStrlen

SpecFmt == InitFmt /\ [][NextFmt]_vars

TypeOK ==
    /\ pc \in [Procs -> {"start", "registered", "removed", "exited"}
                            \cup InCall \cup InDaemon]
    /\ path \in Inodes \cup {NoFile}
    /\ lockOwner \in [Inodes -> Procs \cup {NoProc}]
    /\ fd \in [Procs -> Inodes \cup {NoFd}]
    /\ regRet \in [Procs -> {NoRet, 0}]
    /\ rmRet \in [Procs -> {NoRet, 0}]
    /\ exitStatus \in [Procs -> {Running, EXIT_SUCCESS, EXIT_FAILURE}]
    /\ fault \in [Procs -> {"none", "unlink", "open", "lock", "write",
                              "fork", "chdir", "fclose"}]
    /\ forkRet \in [Procs -> Int]
    /\ umaskv \in [Procs -> {0, InheritedUmask}]
    /\ sid \in [Procs -> BOOLEAN]
    /\ cwd \in [Procs -> {"launchdir", "/"}]
    /\ stdoutOpen \in [Procs -> BOOLEAN]
    /\ stderrOpen \in [Procs -> BOOLEAN]
    /\ infos \in [Procs -> Nat]
    /\ dRet \in [Procs -> {NoRet, 0}]
    /\ fpc \in {"off", "sprintf", "strlen", "done"}
    /\ foverrun \in Nat
    /\ flen \in Nat

----------------------------------------------------------------------------
(* Vocabulary of the properties.                                            *)

\* The number a byte string denotes when read as decimal digits.
RECURSIVE DecValue(_)
DecValue(s) == IF s = << >> THEN 0
               ELSE 10 * DecValue(SubSeq(s, 1, Len(s) - 1)) + (s[Len(s)] - 48)

\* s is exactly the decimal notation of n: digits only, no leading zero,
\* no sign, no newline.
IsDecimalOf(s, n) ==
    /\ Len(s) >= 1
    /\ \A i \in 1..Len(s) : s[i] \in 48..57
    /\ Len(s) > 1 => s[1] # 48
    /\ DecValue(s) = n

IsProperPrefix(s, t) == Len(s) < Len(t) /\ s = SubSeq(t, 1, Len(s))

\* p's call of mk_utils_register_pid is over (returned, or ended the process)
\* and p has not called mk_utils_remove_pid since.
RegisterDone(p) ==
    \/ pc[p] = "registered"
    \/ pc[p] = "exited" /\ rmRet[p] = NoRet

\* No other process was ever launched.
Alone(p) == \A q \in Procs \ {p} : pc[q] = "start"

\* No other process has taken a step that touches the path since p entered
\* mk_utils_register_pid.
Quiet(p) ==
    \A r \in Procs \ {p} : Phase(r) = atStart[p][r] /\ Phase(r) # "incall"

\* The calls of p and q overlapped in time.
Raced(p, q) ==
    \/ pc[p] # "start" /\ atStart[p][q] = "incall"
    \/ pc[q] # "start" /\ atStart[q][p] = "incall"

HoldsLock(p) == \E i \in Inodes : lockOwner[i] = p

\* This step is a call of mk_utils_remove_pid by p that returns.
RemoveStep(p) == pc[p] = "registered" /\ pc'[p] = "removed"

----------------------------------------------------------------------------
\* C1: while P1 has returned from mk_utils_register_pid, is alive and has not
\* called mk_utils_remove_pid, a mk_utils_register_pid that P2 starts never
\* returns success; it ends in exit(EXIT_FAILURE) and the pid file still
\* holds exactly P1's decimal pid.
C1_SingleInstance ==
    \A p1 \in Procs : \A p2 \in Procs \ {p1} :
        (pc[p1] = "registered" /\ pc[p2] # "start"
            /\ atStart[p2][p1] = "registered")
        => /\ regRet[p2] = NoRet
           /\ pc[p2] = "exited" =>
                /\ exitStatus[p2] = EXIT_FAILURE
                /\ path # NoFile
                /\ IsDecimalOf(content[path], getpid(p1))

\* C2: at any time at most one process holds a write lock taken through the
\* path (on whatever file the path named when the process opened it).
C2_AtMostOneLockHolder ==
    Cardinality({p \in Procs : HoldsLock(p)}) <= 1

\* C3: of processes whose calls of mk_utils_register_pid overlap, at most one
\* returns success, and once both are over another one has exited with
\* EXIT_FAILURE.
C3_AtMostOneRaceWinner ==
    \A p \in Procs : \A q \in Procs \ {p} :
        Raced(p, q) =>
            /\ ~(regRet[p] = 0 /\ regRet[q] = 0)
            /\ (RegisterDone(p) /\ RegisterDone(q)) =>
                   (exitStatus[p] = EXIT_FAILURE \/ exitStatus[q] = EXIT_FAILURE)

\* C4: whenever the pid file exists and a write of it has completed, its
\* content is exactly the decimal pid of the process that holds the lock on it.
C4_ContentIsLockHolder ==
    (path # NoFile /\ written[path]) =>
        /\ lockOwner[path] # NoProc
        /\ IsDecimalOf(content[path], getpid(lockOwner[path]))

\* C5: after mk_utils_register_pid returned success the descriptor the lock
\* was granted on stays open, and the lock held, until the process exits.
C5_LockFdStaysOpen ==
    \A p \in Procs :
        (regRet[p] = 0 /\ pc[p] # "exited") =>
            /\ fd[p] # NoFd
            /\ lockOwner[fd[p]] = p

\* C6: a single process p, no file at the path, no system call refused:
\* mk_utils_register_pid returns 0 and the file holds exactly the decimal
\* digits of p.
C6_FreshAcquire ==
    \A p \in Procs :
        (Alone(p) /\ initial = Absent /\ fault[p] = "none" /\ RegisterDone(p))
        => /\ regRet[p] = 0
           /\ exitStatus[p] # EXIT_FAILURE
           /\ errors[p] = 0
           /\ path # NoFile
           /\ IsDecimalOf(content[path], getpid(p))

C6_Witness ==
    \E p \in Procs :
        /\ Alone(p) /\ initial = Absent /\ fault[p] = "none"
        /\ pc[p] = "registered"
        /\ path = p /\ content[p] # << >>

C8_RemoveDeletesFile ==
    [][\A p \in Procs :
          (RemoveStep(p) /\ regRet[p] = 0 /\ warnings'[p] = warnings[p])
          => path' = NoFile]_vars

C8_Witness ==
    \E p \in Procs :
        /\ pc[p] = "removed" /\ regRet[p] = 0 /\ warnings[p] = 0
        /\ path = NoFile

C10_RemoveNeverFatal ==
    [][\A p \in Procs :
          (pc[p] = "registered" /\ pc'[p] # "registered")
          => /\ exitStatus'[p] # EXIT_FAILURE
             /\ errors'[p] = errors[p]
             /\ exitStatus'[p] = Running =>
                  /\ RemoveStep(p)
                  /\ rmRet'[p] = 0
                  /\ warnings'[p] = warnings[p] +
                       (IF path # NoFile /\ path' = NoFile THEN 0 ELSE 1)]_vars

C10_Witness ==
    \E p \in Procs :
        /\ pc[p] = "removed" /\ rmRet[p] = 0 /\ warnings[p] = 1
        /\ exitStatus[p] = Running
        /\ path = NoFile

\* This step ends p's process the way every failure of
\* mk_utils_register_pid does: one mk_err line, exit(EXIT_FAILURE), nothing
\* returned to the caller.
FatalOutcome(p) ==
    /\ pc'[p] = "exited"
    /\ exitStatus'[p] = EXIT_FAILURE
    /\ errors'[p] = errors[p] + 1
    /\ regRet'[p] = NoRet
    /\ fd'[p] = NoFd

\* C11: mk_utils_register_pid either goes on after a step that took effect
\* (the old file unlinked, the file opened, the lock granted, the whole pid
\* string written) and finally returns 0 with no error logged, or logs
\* exactly one error and exits with EXIT_FAILURE at that step; it never
\* returns another value and never goes on after a step that failed.
C11_SucceedOrExit ==
    [][\A p \in Procs :
          /\ (pc[p] = "start" /\ pc'[p] # "start")
             => pc'[p] \in {"unlink", "open"} /\ errors'[p] = errors[p]
          /\ (pc[p] = "unlink" /\ pc'[p] # "unlink")
             => \/ pc'[p] = "open" /\ path # NoFile /\ path' = NoFile
                   /\ errors'[p] = errors[p]
                \/ FatalOutcome(p)
          /\ (pc[p] = "open" /\ pc'[p] # "open")
             => \/ pc'[p] = "lock" /\ fd'[p] # NoFd /\ fd'[p] = path'
                   /\ errors'[p] = errors[p]
                \/ FatalOutcome(p)
          /\ (pc[p] = "lock" /\ pc'[p] # "lock")
             => \/ pc'[p] = "write" /\ lockOwner'[fd[p]] = p
                   /\ lockOwner[fd[p]] \in {NoProc, p}
                   /\ errors'[p] = errors[p]
                \/ FatalOutcome(p)
          /\ (pc[p] = "write" /\ pc'[p] # "write")
             => \/ pc'[p] = "close" /\ errors'[p] = errors[p]
                   /\ SubSeq(content'[fd[p]], 1, Len(sprintf_i(getpid(p))))
                        = sprintf_i(getpid(p))
                \/ FatalOutcome(p)
          /\ (pc[p] = "close" /\ pc'[p] # "close")
             => pc'[p] = "registered" /\ regRet'[p] = 0 /\ errors'[p] = 0
          /\ regRet'[p] # regRet[p] => pc[p] = "close" /\ regRet'[p] = 0]_vars

C11_Witness ==
    \E p \in Procs :
        /\ pc[p] = "exited" /\ exitStatus[p] = EXIT_FAILURE
        /\ errors[p] = 1 /\ regRet[p] = NoRet
        /\ fault[p] = "write"

\* The steps of mk_utils_register_pid.
RegisterStep(p) ==
    Stat(p) \/ UnlinkOld(p) \/ Open(p) \/ Lock(p) \/ Write(p) \/ Close(p)

\* How far a process is: every step moves it strictly forward.
Rank(l) ==
    CASE l = "start" -> 0
      [] l = "unlink" -> 1
      [] l = "open" -> 2
      [] l = "lock" -> 3
      [] l = "write" -> 4
      [] l = "close" -> 5
      [] l = "registered" -> 6
      [] l = "removed" -> 7
      [] OTHER -> 8

\* A process inside mk_utils_register_pid can take its next step.
CanStep(p) == pc[p] \in InCall \cup {"start"} => ENABLED RegisterStep(p)

\* C12: whatever the other processes hold or do, a process inside
\* mk_utils_register_pid can always take its next step (it never waits for
\* a lock to be released), and every step moves it strictly forward, so the
\* call is over (returned, or exited) after at most six steps of its own.
C12_NeverWaits ==
    /\ [](\A p \in Procs : CanStep(p))
    /\ [][\A p \in Procs : pc'[p] # pc[p] => Rank(pc'[p]) > Rank(pc[p])]_vars

C12_Witness ==
    \E p \in Procs : \E q \in Procs \ {p} :
        /\ pc[p] = "lock" /\ lockOwner[fd[p]] = q

\* This step removes the name of the pid file.
UnlinksFile == path # NoFile /\ path' = NoFile

\* q returned from mk_utils_register_pid and its process is still running.
LiveHolder(q) == regRet[q] = 0 /\ pc[q] \in {"registered", "removed"}

\* C18: no unlink (of a stale file in mk_utils_register_pid, or in
\* mk_utils_remove_pid) by a process p removes a file whose content is the
\* pid of another process that registered and is still running.
C18_NeverDeletesLivePidFile ==
    [][\A p \in Procs :
          (UnlinksFile /\ pc'[p] # pc[p])
          => ~ \E q \in Procs \ {p} :
                 LiveHolder(q) /\ IsDecimalOf(content[path], getpid(q))]_vars

\* C19: the file mk_utils_register_pid locks and writes is the one the
\* calling process created in its own open, and it is empty until the
\* process writes it.
C19_OwnFreshFile ==
    \A p \in Procs :
        pc[p] \in {"lock", "write"} =>
            /\ fd[p] = p
            /\ content[fd[p]] = << >>


----------------------------------------------------------------------------
(* mk_utils_set_daemon (checked under SpecDaemon).                          *)

\* The environment made fork or chdir fail in p.
DaemonFailed(p) == fault[p] \in {"fork", "chdir"}

\* p takes a step of mk_utils_register_pid.
AcquireStep(p) == pc[p] \in {"start"} \cup InCall /\ pc'[p] # pc[p]

\* C13: a process in which fork or chdir failed has logged one error and
\* exited with EXIT_FAILURE without returning from mk_utils_set_daemon; the
\* failing step leaves the pid file alone and the process never takes a
\* step of pid-file acquisition; and a process that exits with failure
\* before mk_utils_set_daemon returned had fork or chdir fail, no other
\* failure (a failed fclose) being fatal.
C13_DaemonFailureIsFatal ==
    /\ [](\A p \in Procs :
            /\ DaemonFailed(p)
               => /\ pc[p] = "exited"
                  /\ exitStatus[p] = EXIT_FAILURE
                  /\ errors[p] = 1
                  /\ dRet[p] = NoRet
                  /\ regRet[p] = NoRet
                  /\ fd[p] = NoFd
            /\ (exitStatus[p] = EXIT_FAILURE /\ dRet[p] = NoRet)
               => DaemonFailed(p)
            /\ (fault[p] = "fclose" /\ dRet[p] = NoRet)
               => exitStatus[p] = Running)
    /\ [][\A p \in Procs :
            /\ AcquireStep(p) => dRet[p] = 0 /\ ~DaemonFailed(p)
            /\ (DaemonFailed(p)' /\ ~DaemonFailed(p))
               => UNCHANGED <<path, content, lockOwner, fd, regRet>>]_vars

C13_Witness ==
    \E p \in Procs :
        /\ fault[p] = "chdir"
        /\ pc[p] = "exited"
        /\ exitStatus[p] = EXIT_FAILURE
        /\ errors[p] = 1

\* C14: a process to which fork returned a child's pid is the parent: it has
\* run none of umask, setsid, chdir, the log line and the stream closes, it
\* never returns from mk_utils_set_daemon, and when it has ended it has
\* exited with EXIT_SUCCESS; a process to which mk_utils_set_daemon returned
\* is a child (fork returned 0) whose working directory is "/", whose umask
\* is 0 and whose stdout and stderr are closed.
C14_ParentExitsChildDetached ==
    \A p \in Procs :
        /\ forkRet[p] > 0
           => /\ pc[p] \in {"forked", "exited"}
              /\ pc[p] = "exited" => exitStatus[p] = EXIT_SUCCESS
              /\ umaskv[p] = InheritedUmask
              /\ ~sid[p]
              /\ cwd[p] = "launchdir"
              /\ infos[p] = 0
              /\ stderrOpen[p]
              /\ stdoutOpen[p]
              /\ dRet[p] = NoRet
              /\ errors[p] = 0
        /\ dRet[p] # NoRet
           => /\ dRet[p] = 0
              /\ forkRet[p] = 0
              /\ cwd[p] = "/"
              /\ umaskv[p] = 0
              /\ ~stdoutOpen[p]
              /\ ~stderrOpen[p]

C14_Witness ==
    \E p \in Procs : \E c \in Procs \ {p} :
        /\ forkRet[p] = getpid(c)
        /\ pc[p] = "exited"
        /\ exitStatus[p] = EXIT_SUCCESS
        /\ dRet[c] = 0
        /\ pc[c] = "start"

\* C15: in every state each step of mk_utils_set_daemon has been taken only
\* if the one before it in the order umask(0), setsid, chdir("/"), info
\* line, fclose(stderr), fclose(stdout), return has been taken; the info
\* line is printed at most once, exactly once when the function has
\* returned, while stdout was open, and not at all when chdir failed.
C15_FixedOrder ==
    \A p \in Procs :
        /\ sid[p] => umaskv[p] = 0
        /\ cwd[p] = "/" => sid[p]
        /\ infos[p] > 0 => cwd[p] = "/"
        /\ ~stderrOpen[p] => infos[p] = 1
        /\ ~stdoutOpen[p] => ~stderrOpen[p]
        /\ dRet[p] = 0 => ~stdoutOpen[p] /\ infos[p] = 1
        /\ infos[p] <= 1
        /\ fault[p] = "chdir" => infos[p] = 0 /\ sid[p] /\ stdoutOpen[p]
        /\ pc[p] = "info" => infos[p] = 0 /\ stdoutOpen[p] /\ cwd[p] = "/"

C15_Witness ==
    \E p \in Procs :
        /\ dRet[p] = 0
        /\ infos[p] = 1
        /\ ~stdoutOpen[p]
        /\ forkRet[p] = 0

\* C17: a process prints an error or a warning only while its stdout is
\* open.
C17_NoLogOnClosedStream ==
    [][\A p \in Procs :
          (errors'[p] > errors[p] \/ warnings'[p] > warnings[p])
              => stdoutOpen[p]]_vars

----------------------------------------------------------------------------
(* The size of pidstr (checked under SpecFmt).                              *)

\* C16: once the pid is formatted, nothing was stored past the end of
\* pidstr.
C16_PidstrFits == fpc \in {"strlen", "done"} => foverrun = 0

=============================================================================
